---- MODULE Spec2Model ----
(***************************************************************************)
(* A model of dSQ.py: the job-array submission front end.  One run of the  *)
(* script is one behaviour: probe slurm, set the default sbatch options,   *)
(* merge the user's sbatch arguments, scan the task file, check the array  *)
(* size, format the array range, and print or submit the job script.       *)
(*                                                                         *)
(* A Python str is modelled as a sequence of one-character strings, so     *)
(* that startswith, split, rstrip, str(int) and concatenation are computed *)
(* character by character.  A Python int list is a sequence of integers.   *)
(* List positions keep Python's zero-based values (i, the task ids); the   *)
(* model adds one where it indexes a TLA+ sequence.                        *)
(***************************************************************************)
EXTENDS Integers, Sequences, FiniteSets, TLC

VARIABLES
    pc,               \* position of the run in the script
    slurm_available,  \* whether scontrol and sinfo can be executed
    MaxArraySize,     \* the value scontrol reports (job_info['max_array_size'])
    submit,           \* args.submit
    max_tasks,        \* args.max_tasks: None or the text given
    email,            \* what get_user_email returns: None or an address
    arg_list,         \* user_slurm_args, the tokens argparse did not know
    i,                \* the loop index of parse_user_slurm_args
    slurm_args,       \* job_info['slurm_args']: a dict in insertion order
    extra_slurm_args, \* the local list of parse_user_slurm_args
    lines,            \* the lines read from the task file so far
    eof,              \* the task file iterator is exhausted
    task_id_list,     \* job_info['task_id_list']
    num_tasks,        \* job_info['num_tasks']
    max_array_idx,    \* job_info['max_array_idx'], NoInt until assigned
    ranges,           \* the local list of format_range
    array_range,      \* job_info['array_range'], None until assigned
    stdout,           \* what was printed, one entry per print call or line
    stderr,           \* what was written to stderr
    submitted,        \* the sbatch command lines handed to call()
    exit_code         \* NoInt while running, then the process's exit code

vars == <<pc, slurm_available, MaxArraySize, submit, max_tasks, email, arg_list,
          i, slurm_args, extra_slurm_args, lines, eof, task_id_list, num_tasks,
          max_array_idx, ranges, array_range, stdout, stderr, submitted,
          exit_code>>

\* Python's None where a text is expected, and where an int is expected
None == <<"None">>
NoInt == 0 - 1

----------------------------------------------------------------------------
(* Bounds of the model *)

MaxNeg == 1      \* the range encoder's inputs are drawn from -MaxNeg..MaxVal
MaxVal == 10
MaxArgs == 3     \* longest user token list of the argument merger's runs
MaxLines == 5    \* longest task file
MaxCeiling == 3  \* largest MaxArraySize the cluster reports

----------------------------------------------------------------------------
(* Python's str and list operations, on sequences of characters *)

startswith(s, p) == Len(s) >= Len(p) /\ SubSeq(s, 1, Len(p)) = p

Whitespace == {" ", "\t", "\n", "\r"}

RECURSIVE rstrip(_)
rstrip(s) ==
    IF s # <<>> /\ s[Len(s)] \in Whitespace
    THEN rstrip(SubSeq(s, 1, Len(s) - 1))
    ELSE s

\* s.split(sep) for a one-character sep: always at least one part
RECURSIVE split_from(_, _, _, _)
split_from(s, sep, k, cur) ==
    IF k > Len(s) THEN <<cur>>
    ELSE IF s[k] = sep THEN <<cur>> \o split_from(s, sep, k + 1, <<>>)
    ELSE split_from(s, sep, k + 1, Append(cur, s[k]))

split(s, sep) == split_from(s, sep, 1, <<>>)

\* sep.join(parts)
RECURSIVE join(_, _)
join(sep, parts) ==
    IF parts = <<>> THEN <<>>
    ELSE IF Len(parts) = 1 THEN parts[1]
    ELSE parts[1] \o sep \o join(sep, Tail(parts))

DigitChar == <<"0", "1", "2", "3", "4", "5", "6", "7", "8", "9">>

\* str(n) of an int: decimal digits, a leading '-' when negative
RECURSIVE digits(_)
digits(n) ==
    IF n < 10 THEN <<DigitChar[n + 1]>>
    ELSE Append(digits(n \div 10), DigitChar[(n % 10) + 1])

str(n) == IF n < 0 THEN <<"-">> \o digits(0 - n) ELSE digits(n)

----------------------------------------------------------------------------
(* The range encoder: _collapse_ranges and format_range *)

enumerate(s) == [k \in 1..Len(s) |-> <<k - 1, s[k]>>]

\* the key of a wrong groupby: the value alone
RangeKeyValue(tx) == tx[2]

\* lambda tx: tx[1]-tx[0], with tx = (index, value)
RangeKey(tx) == tx[2] - tx[1]

\* itertools.groupby: maximal runs of consecutive elements with equal keys
RECURSIVE groupby_from(_, _, _)
groupby_from(s, k, acc) ==
    IF k > Len(s) THEN acc
    ELSE IF acc # <<>> /\ RangeKey(acc[Len(acc)][1]) = RangeKey(s[k])
    THEN groupby_from(s, k + 1,
             [acc EXCEPT ![Len(acc)] = Append(acc[Len(acc)], s[k])])
    ELSE groupby_from(s, k + 1, Append(acc, <<s[k]>>))

groupby(s) == groupby_from(s, 1, <<>>)

\* a wrong yield: the index of the group's last element instead of its value
GroupPairIndex(t) == <<t[1][2], t[Len(t)][1]>>

\* yield t[0][1], t[-1][1]
GroupPair(t) == <<t[1][2], t[Len(t)][2]>>

collapse_ranges(tasknums) ==
    LET groups == groupby(enumerate(tasknums))
    IN  [g \in 1..Len(groups) |-> GroupPair(groups[g])]

\* '{}-{}'.format(x[0],x[1]) if x[0]!=x[1] else str(x[0])
format_pair(x) ==
    IF x[1] # x[2] THEN str(x[1]) \o <<"-">> \o str(x[2]) ELSE str(x[1])

format_ranges(rs) == join(<<",">>, [g \in 1..Len(rs) |-> format_pair(rs[g])])

format_range(tasknums) == format_ranges(collapse_ranges(tasknums))

----------------------------------------------------------------------------
(* Fixed texts of the script and the inputs the runs are drawn from *)

\* the keys of slurm_flag_dict and of job_info['slurm_args']
opt_job_name == <<"-", "-", "j", "o", "b", "-", "n", "a", "m", "e">>
opt_ntasks == <<"-", "-", "n", "t", "a", "s", "k", "s">>
opt_cpus_per_task == <<"-", "-", "c", "p", "u", "s", "-", "p", "e", "r", "-", "t", "a", "s", "k">>
opt_mail_type == <<"-", "-", "m", "a", "i", "l", "-", "t", "y", "p", "e">>
opt_mail_user == <<"-", "-", "m", "a", "i", "l", "-", "u", "s", "e", "r">>
opt_array == <<"-", "-", "a", "r", "r", "a", "y">>
key_extra == <<"e", "x", "t", "r", "a">>

flag_J == <<"-", "J">>
flag_n == <<"-", "n">>
flag_c == <<"-", "c">>

\* slurm_flag_dict, as a function on its keys
slurm_flag_keys == {flag_J, flag_n, flag_c}

slurm_flag_dict(flag) ==
    IF flag = flag_J THEN opt_job_name
    ELSE IF flag = flag_n THEN opt_ntasks
    ELSE opt_cpus_per_task

\* args.taskfile[0].name and the path of dSQBatch.py
taskfile_name == <<"t", "a", "s", "k", "s">>
script == <<"d", "S", "Q", "B", "a", "t", "c", "h", ".", "p", "y">>

\* the address found in ~/.forward, when there is one
UserEmail == <<"u", "@", "y", ".", "e">>
Emails == {None, UserEmail}

\* --max-tasks: absent, or its one argument
MaxTasksChoices == {None, <<"2">>}

\* user tokens: long forms with a default key, with another key, with a value
\* holding '=', without '='; short forms in and out of the alias table; a
\* token that is no option
tok_ntasks_2 == <<"-", "-", "n", "t", "a", "s", "k", "s", "=", "2">>
tok_mem_4 == <<"-", "-", "m", "e", "m", "=", "4">>
tok_ntasks_a_b == <<"-", "-", "n", "t", "a", "s", "k", "s", "=", "a", "=", "b">>
tok_mem_empty == <<"-", "-", "m", "e", "m", "=">>
tok_long_bare == <<"-", "-", "x">>
tok_p == <<"-", "p">>
tok_2 == <<"2">>

Tokens == {tok_ntasks_2, tok_mem_4, tok_ntasks_a_b, tok_mem_empty,
           tok_long_bare, flag_c, tok_p, tok_2}

RECURSIVE SeqsUpTo(_, _)
SeqsUpTo(S, n) ==
    IF n = 0 THEN {<<>>}
    ELSE LET shorter == SeqsUpTo(S, n - 1)
         IN  shorter \cup {Append(s, x) : s \in shorter, x \in S}

\* the token lists of the argument merger's runs
ArgLists == SeqsUpTo(Tokens, MaxArgs)

\* the token lists of the whole runs: one of each outcome of the merge
RunArgLists == {<<>>,
                <<tok_mem_4>>,
                <<flag_c, tok_2>>,
                <<tok_ntasks_2, tok_2>>,
                <<tok_ntasks_2, tok_long_bare>>,
                <<tok_mem_4, tok_p>>,
                <<tok_ntasks_a_b>>}

\* raw lines of a task file, as the file iterator yields them, each with its
\* newline: a command, a blank line, a comment, a line of blanks only
line_cmd == <<"c", "m", "d", "\n">>
line_blank == <<"\n">>
line_comment == <<"#", "c", "\n">>
line_spaces == <<" ", "\n">>

LineChoices == {line_cmd, line_blank, line_comment, line_spaces}

\* the values scontrol may report
ArraySizes == 2..MaxCeiling

\* the exit codes sbatch may return
SbatchReturns == {0, 1}

----------------------------------------------------------------------------
(* job_info['slurm_args']: a dict, kept as its items in insertion order *)

dict_keys(d) == {d[n].k : n \in DOMAIN d}

dict_get(d, key) == d[CHOOSE n \in DOMAIN d : d[n].k = key].v

\* d[key] = value: an existing key keeps its place, a new one goes last
dict_set(d, key, value) ==
    IF key \in dict_keys(d)
    THEN [n \in DOMAIN d |-> IF d[n].k = key THEN [k |-> key, v |-> value] ELSE d[n]]
    ELSE Append(d, [k |-> key, v |-> value])

----------------------------------------------------------------------------
(* The run.  parse_known_args (line 167) is argparse's work and is taken as  *)
(* done: submit, max_tasks, the opened task file and arg_list are its result. *)

\* sys.exit(code), and the end of the script (code 0)
Exit(code) == pc' = "exit" /\ exit_code' = code

\* an exception nobody catches: the traceback on stderr, exit code 1
Raise(exc, where) ==
    /\ stderr' = Append(stderr, <<"Traceback", exc, where>>)
    /\ Exit(1)

\* lines 13-25: scontrol and sinfo are run when the module is loaded
ProbeSlurm ==
    /\ pc = "probe"
    /\ IF slurm_available
       THEN /\ pc' = "set_defaults"
            /\ UNCHANGED <<stdout, exit_code>>
       ELSE /\ stdout' = Append(stdout,
                   <<"You don't appear to have slurm available. Exiting!">>)
            /\ Exit(1)
    /\ UNCHANGED <<slurm_available, MaxArraySize, submit, max_tasks, email,
                   arg_list, i, slurm_args, extra_slurm_args, lines, eof,
                   task_id_list, num_tasks, max_array_idx, ranges, array_range,
                   stderr, submitted>>

\* lines 128-138, called at line 179
set_defaults ==
    /\ pc = "set_defaults"
    /\ slurm_args' =
           <<[k |-> opt_job_name, v |-> taskfile_name],
             [k |-> opt_ntasks, v |-> <<"1">>],
             [k |-> opt_cpus_per_task, v |-> <<"1">>]>>
           \o (IF email # None
               THEN <<[k |-> opt_mail_type, v |-> <<"A", "L", "L">>],
                      [k |-> opt_mail_user, v |-> email]>>
               ELSE <<>>)
    /\ pc' = "call_parse"
    /\ UNCHANGED <<slurm_available, MaxArraySize, submit, max_tasks, email,
                   arg_list, i, extra_slurm_args, lines, eof, task_id_list,
                   num_tasks, max_array_idx, ranges, array_range, stdout,
                   stderr, submitted, exit_code>>

\* lines 83-87: parse_user_slurm_args is entered (line 182)
parse_enter ==
    /\ pc = "call_parse"
    /\ extra_slurm_args' = <<>>
    /\ i' = 0
    /\ pc' = "parse"
    /\ UNCHANGED <<slurm_available, MaxArraySize, submit, max_tasks, email,
                   arg_list, slurm_args, lines, eof, task_id_list, num_tasks,
                   max_array_idx, ranges, array_range, stdout, stderr,
                   submitted, exit_code>>

ParseFrame == <<slurm_available, MaxArraySize, submit, max_tasks, email,
                arg_list, lines, eof, task_id_list, num_tasks, max_array_idx,
                ranges, array_range, stdout, submitted>>

\* arg.split('=') of line 92
long_parts(arg) == split(arg, "=")

\* lines 88-97 and 110: one pass of the loop on a '--' token
parse_long ==
    /\ pc = "parse"
    /\ i < Len(arg_list)
    /\ LET arg == arg_list[i + 1]
           parts == long_parts(arg)
       IN  /\ startswith(arg, <<"-", "-">>)
           /\ IF Len(parts) # 2
              THEN \* key, value = ... cannot unpack
                   /\ Raise("ValueError", "line 92")
                   /\ UNCHANGED <<i, slurm_args, extra_slurm_args>>
              ELSE LET key == parts[1]
                       value == parts[2]
                   IN  /\ IF key \in dict_keys(slurm_args)
                          THEN /\ slurm_args' = dict_set(slurm_args, key, value)
                               /\ UNCHANGED extra_slurm_args
                          ELSE /\ extra_slurm_args' = Append(extra_slurm_args, arg)
                               /\ UNCHANGED slurm_args
                       /\ i' = i + 1
                       /\ UNCHANGED <<pc, stderr, exit_code>>
    /\ UNCHANGED ParseFrame

\* a wrong consumption: a following token that looks like a flag is not taken
short_step_lookahead(flag, next) == IF startswith(next, <<"-">>) THEN 1 ELSE 2

\* lines 100 and 110: a short flag and its value move i by two
short_step(flag, next) == 2

\* lines 88-89, 99-105 and 110: one pass of the loop on a '-' token
parse_short ==
    /\ pc = "parse"
    /\ i < Len(arg_list)
    /\ LET arg == arg_list[i + 1]
       IN  /\ ~startswith(arg, <<"-", "-">>)
           /\ startswith(arg, <<"-">>)
           /\ IF i + 1 >= Len(arg_list)
              THEN \* arg_list[i] after i += 1: list index out of range
                   /\ i' = i + 1
                   /\ Raise("IndexError", "line 101")
                   /\ UNCHANGED <<slurm_args, extra_slurm_args>>
              ELSE LET value == arg_list[i + 2]
                   IN  /\ IF arg \in slurm_flag_keys
                          THEN /\ slurm_args' =
                                      dict_set(slurm_args, slurm_flag_dict(arg), value)
                               /\ UNCHANGED extra_slurm_args
                          ELSE /\ extra_slurm_args' =
                                      Append(extra_slurm_args, arg \o <<" ">> \o value)
                               /\ UNCHANGED slurm_args
                       /\ i' = i + short_step(arg, value)
                       /\ UNCHANGED <<pc, stderr, exit_code>>
    /\ UNCHANGED ParseFrame

\* a wrong else branch: the token is skipped and the loop goes on
parse_malformed_skip ==
    /\ pc = "parse"
    /\ i < Len(arg_list)
    /\ ~startswith(arg_list[i + 1], <<"-">>)
    /\ i' = i + 1
    /\ UNCHANGED <<pc, slurm_args, extra_slurm_args, stderr, exit_code>>
    /\ UNCHANGED ParseFrame

\* lines 88-89 and 107-108: sys.exit with a message prints it and exits with 1
parse_malformed ==
    /\ pc = "parse"
    /\ i < Len(arg_list)
    /\ ~startswith(arg_list[i + 1], <<"-">>)
    /\ stderr' = Append(stderr, <<"Error parsing arguments">>)
    /\ Exit(1)
    /\ UNCHANGED <<i, slurm_args, extra_slurm_args>>
    /\ UNCHANGED ParseFrame

\* lines 88 and 112: the loop ends and the extra list is stored
parse_return ==
    /\ pc = "parse"
    /\ i >= Len(arg_list)
    /\ slurm_args' = dict_set(slurm_args, key_extra, extra_slurm_args)
    /\ pc' = "scan"
    /\ UNCHANGED <<i, extra_slurm_args, stderr, exit_code>>
    /\ UNCHANGED ParseFrame

\* a wrong test: only the line's newline is trimmed, rstrip('\n')
is_task_newline_only(line) ==
    LET body == IF line # <<>> /\ line[Len(line)] = "\n"
                THEN SubSeq(line, 1, Len(line) - 1) ELSE line
    IN  ~(startswith(line, <<"#">>) \/ body = <<>>)

\* the test of line 186
is_task(line) == ~(startswith(line, <<"#">>) \/ rstrip(line) = <<>>)

ScanFrame == <<slurm_available, MaxArraySize, submit, max_tasks, email,
               arg_list, i, slurm_args, extra_slurm_args, max_array_idx,
               ranges, array_range, stdout, stderr, submitted, exit_code>>

\* lines 185-188: the file iterator yields one more line
scan_line ==
    /\ pc = "scan"
    /\ Len(lines) < MaxLines
    /\ \E line \in LineChoices :
          /\ lines' = Append(lines, line)
          /\ IF is_task(line)
             THEN /\ task_id_list' = Append(task_id_list, Len(lines))
                  /\ num_tasks' = num_tasks + 1
             ELSE UNCHANGED <<task_id_list, num_tasks>>
    /\ UNCHANGED <<pc, eof>>
    /\ UNCHANGED ScanFrame

\* line 185: the file iterator is exhausted and the loop ends
scan_end ==
    /\ pc = "scan"
    /\ eof' = TRUE
    /\ pc' = "max_array_idx"
    /\ UNCHANGED <<lines, task_id_list, num_tasks>>
    /\ UNCHANGED ScanFrame

RunFrame == <<slurm_available, MaxArraySize, submit, max_tasks, email,
              arg_list, i, extra_slurm_args, lines, eof, task_id_list,
              num_tasks>>

\* line 189: task_id_list[-1]; on an empty list, list index out of range
take_max_array_idx ==
    /\ pc = "max_array_idx"
    /\ IF task_id_list = <<>>
       THEN /\ Raise("IndexError", "line 189")
            /\ UNCHANGED max_array_idx
       ELSE /\ max_array_idx' = task_id_list[Len(task_id_list)]
            /\ pc' = "check_size"
            /\ UNCHANGED <<stderr, exit_code>>
    /\ UNCHANGED <<slurm_args, ranges, array_range, stdout, submitted>>
    /\ UNCHANGED RunFrame

\* a wrong order: the script's first line is printed before the test
check_size_late ==
    /\ pc = "check_size"
    /\ IF max_array_idx > MaxArraySize
       THEN /\ stdout' = stdout \o <<<<"#!/bin/bash\n">>,
                   <<"Your task file would result in a job array with a maximum index of {max_array_idx}. This exceeds allowed array size of {max_array_size}. Please split the tasks into chunks that are smaller than {max_array_size}.",
                     str(max_array_idx), str(MaxArraySize)>>>>
            /\ Exit(1)
       ELSE /\ pc' = "check_tasks"
            /\ UNCHANGED <<stdout, exit_code>>
    /\ UNCHANGED <<slurm_args, max_array_idx, ranges, array_range, stderr,
                   submitted>>
    /\ UNCHANGED RunFrame

\* a wrong comparison: an index equal to the ceiling is refused too
exceeds_or_equals(idx, size) == idx >= size

\* the comparison of line 192
exceeds(idx, size) == idx > size

\* lines 192-194
check_size ==
    /\ pc = "check_size"
    /\ IF exceeds(max_array_idx, MaxArraySize)
       THEN /\ stdout' = Append(stdout,
                   <<"Your task file would result in a job array with a maximum index of {max_array_idx}. This exceeds allowed array size of {max_array_size}. Please split the tasks into chunks that are smaller than {max_array_size}.",
                     str(max_array_idx), str(MaxArraySize)>>)
            /\ Exit(1)
       ELSE /\ pc' = "check_tasks"
            /\ UNCHANGED <<stdout, exit_code>>
    /\ UNCHANGED <<slurm_args, max_array_idx, ranges, array_range, stderr,
                   submitted>>
    /\ UNCHANGED RunFrame

\* lines 197-199
check_tasks ==
    /\ pc = "check_tasks"
    /\ IF num_tasks = 0
       THEN /\ stderr' = Append(stderr,
                   <<"No tasks found in {taskfile_name}\n", taskfile_name>>)
            /\ Exit(1)
       ELSE /\ pc' = "format_range"
            /\ UNCHANGED <<stderr, exit_code>>
    /\ UNCHANGED <<slurm_args, max_array_idx, ranges, array_range, stdout,
                   submitted>>
    /\ UNCHANGED RunFrame

\* line 200, with lines 77-79
call_format_range ==
    /\ pc = "format_range"
    /\ ranges' = collapse_ranges(task_id_list)
    /\ array_range' = format_ranges(ranges')
    /\ pc' = "set_array"
    /\ UNCHANGED <<slurm_args, max_array_idx, stdout, stderr, submitted,
                   exit_code>>
    /\ UNCHANGED RunFrame

\* lines 203-207 and the test of line 211
set_array ==
    /\ pc = "set_array"
    /\ slurm_args' = dict_set(slurm_args, opt_array,
                         IF max_tasks = None THEN array_range
                         ELSE array_range \o <<"%">> \o max_tasks)
    /\ pc' = IF submit THEN "submit" ELSE "print"
    /\ UNCHANGED <<max_array_idx, ranges, array_range, stdout, stderr,
                   submitted, exit_code>>
    /\ UNCHANGED RunFrame

\* lines 215-219: cli_args, built item by item
RECURSIVE cli_args_of(_)
cli_args_of(d) ==
    IF d = <<>> THEN <<>>
    ELSE (IF d[1].k = key_extra
          THEN <<" ">> \o join(<<" ">>, d[1].v)
          ELSE <<" ">> \o d[1].k \o <<"=">> \o d[1].v)
         \o cli_args_of(Tail(d))

\* lines 213-224: the command is printed, run, and its code is the exit code
submit_job ==
    /\ pc = "submit"
    /\ LET cmd == <<"s", "b", "a", "t", "c", "h", " ">> \o cli_args_of(slurm_args)
                  \o <<" ">> \o script \o <<" ">> \o taskfile_name
       IN  /\ stdout' = Append(stdout, <<"submitting:\n {}", cmd>>)
           /\ submitted' = Append(submitted, cmd)
    /\ \E ret \in SbatchReturns : Exit(ret)
    /\ UNCHANGED <<slurm_args, max_array_idx, ranges, array_range, stderr>>
    /\ UNCHANGED RunFrame

\* lines 229-234: the #SBATCH lines of one item of slurm_args
sbatch_lines(item) ==
    IF item.k = key_extra
    THEN [n \in 1..Len(item.v) |-> <<"#SBATCH %s", item.v[n]>>]
    ELSE <<<<"#SBATCH %s=%s", item.k, item.v>>>>

RECURSIVE all_sbatch_lines(_)
all_sbatch_lines(d) ==
    IF d = <<>> THEN <<>> ELSE sbatch_lines(d[1]) \o all_sbatch_lines(Tail(d))

\* lines 228-237; the script then ends, exit code 0
print_script ==
    /\ pc = "print"
    /\ stdout' = stdout \o <<<<"#!/bin/bash\n">>>>
                        \o all_sbatch_lines(slurm_args)
                        \o <<<<"\n{script} {taskfile_name}", script, taskfile_name>>>>
    /\ Exit(0)
    /\ UNCHANGED <<slurm_args, max_array_idx, ranges, array_range, stderr,
                   submitted>>
    /\ UNCHANGED RunFrame

----------------------------------------------------------------------------
(* Specifications *)

\* what every run starts with (lines 170-176 for the job_info fields)
Fresh ==
    /\ i = 0
    /\ slurm_args = <<>>
    /\ extra_slurm_args = <<>>
    /\ lines = <<>>
    /\ eof = FALSE
    /\ task_id_list = <<>>
    /\ num_tasks = 0
    /\ max_array_idx = NoInt
    /\ ranges = <<>>
    /\ array_range = None
    /\ stdout = <<>>
    /\ stderr = <<>>
    /\ submitted = <<>>
    /\ exit_code = NoInt

\* a whole run of the script
Init ==
    /\ pc = "probe"
    /\ slurm_available \in BOOLEAN
    /\ MaxArraySize \in ArraySizes
    /\ submit \in BOOLEAN
    /\ max_tasks \in MaxTasksChoices
    /\ email \in Emails
    /\ arg_list \in RunArgLists
    /\ Fresh

Next ==
    \/ ProbeSlurm
    \/ set_defaults
    \/ parse_enter
    \/ parse_long
    \/ parse_short
    \/ parse_malformed
    \/ parse_return
    \/ scan_line
    \/ scan_end
    \/ take_max_array_idx
    \/ check_size
    \/ check_tasks
    \/ call_format_range
    \/ set_array
    \/ submit_job
    \/ print_script

Spec == Init /\ [][Next]_vars

\* the argument merger alone: set_defaults, then parse_user_slurm_args
InitArgs ==
    /\ pc = "set_defaults"
    /\ slurm_available = TRUE
    /\ MaxArraySize = MaxCeiling
    /\ submit = FALSE
    /\ max_tasks = None
    /\ email \in Emails
    /\ arg_list \in ArgLists
    /\ Fresh

NextArgs ==
    \/ set_defaults
    \/ parse_enter
    \/ parse_long
    \/ parse_short
    \/ parse_malformed
    \/ parse_return

SpecArgs == InitArgs /\ [][NextArgs]_vars

\* the strictly increasing sequence of the members of a finite set of integers
RECURSIVE sorted(_)
sorted(S) ==
    IF S = {} THEN <<>>
    ELSE LET m == CHOOSE x \in S : \A y \in S : x <= y
         IN  <<m>> \o sorted(S \ {m})

\* the range encoder alone: format_range on any strictly increasing list
InitRange ==
    /\ pc = "format_range"
    /\ slurm_available = TRUE
    /\ MaxArraySize = MaxCeiling
    /\ submit = FALSE
    /\ max_tasks = None
    /\ email = None
    /\ arg_list = <<>>
    /\ i = 0
    /\ slurm_args = <<>>
    /\ extra_slurm_args = <<>>
    /\ lines = <<>>
    /\ eof = FALSE
    /\ \E S \in SUBSET ((0 - MaxNeg)..MaxVal) :
          /\ task_id_list = sorted(S)
          /\ num_tasks = Cardinality(S)
    /\ max_array_idx = NoInt
    /\ ranges = <<>>
    /\ array_range = None
    /\ stdout = <<>>
    /\ stderr = <<>>
    /\ submitted = <<>>
    /\ exit_code = NoInt

NextRange == call_format_range

SpecRange == InitRange /\ [][NextRange]_vars

----------------------------------------------------------------------------
(* What the properties below speak of *)

IsStrictlyIncreasing(s) == \A a, b \in DOMAIN s : a < b => s[a] < s[b]

Elements(s) == {s[k] : k \in DOMAIN s}

\* a, a+1, ..., b
RECURSIVE FromTo(_, _)
FromTo(a, b) == IF a > b THEN <<>> ELSE <<a>> \o FromTo(a + 1, b)

\* the pairs expanded, in emission order
RECURSIVE ExpandPairs(_)
ExpandPairs(rs) ==
    IF rs = <<>> THEN <<>>
    ELSE FromTo(rs[1][1], rs[1][2]) \o ExpandPairs(Tail(rs))

DigitValue(c) == (CHOOSE d \in 1..10 : DigitChar[d] = c) - 1

RECURSIVE ParseNat(_)
ParseNat(t) ==
    IF Len(t) = 1 THEN DigitValue(t[1])
    ELSE 10 * ParseNat(SubSeq(t, 1, Len(t) - 1)) + DigitValue(t[Len(t)])

\* a decimal integer with an optional sign
ParseInt(t) == IF t[1] = "-" THEN 0 - ParseNat(Tail(t)) ELSE ParseNat(t)

\* one item of a range expression: 'a-b' or a bare integer.  The dash that
\* separates a from b is the first one that is not a's sign.
DecodeItem(t) ==
    LET dashes == {k \in 2..Len(t) : t[k] = "-"}
    IN  IF dashes = {} THEN <<ParseInt(t)>>
        ELSE LET d == CHOOSE k \in dashes : \A m \in dashes : k <= m
             IN  FromTo(ParseInt(SubSeq(t, 1, d - 1)),
                        ParseInt(SubSeq(t, d + 1, Len(t))))

RECURSIVE DecodeItems(_)
DecodeItems(items) ==
    IF items = <<>> THEN <<>>
    ELSE DecodeItem(items[1]) \o DecodeItems(Tail(items))

\* the integers a range expression stands for, in the order it lists them
DecodeText(t) == IF t = <<>> THEN <<>> ELSE DecodeItems(split(t, ","))

ScriptFormats == {"#!/bin/bash\n", "#SBATCH %s", "#SBATCH %s=%s",
                  "\n{script} {taskfile_name}"}

NoScriptLine == \A k \in DOMAIN stdout : stdout[k][1] \notin ScriptFormats

Printed(fmt) == \E k \in DOMAIN stdout : stdout[k][1] = fmt

NoSlurmMessage == "You don't appear to have slurm available. Exiting!"

CapacityMessage == "Your task file would result in a job array with a maximum index of {max_array_idx}. This exceeds allowed array size of {max_array_size}. Please split the tasks into chunks that are smaller than {max_array_size}."

NoTasksMessage == "No tasks found in {taskfile_name}\n"

----------------------------------------------------------------------------
(* C1, C2: the range encoder *)

\* C1: for every strictly increasing integer list, once format_range has run,
\* expanding the pairs of _collapse_ranges, and decoding the text of
\* format_range, both give back exactly the list, in order.
C1_RoundTrip ==
    (pc = "set_array" /\ IsStrictlyIncreasing(task_id_list)) =>
        /\ ExpandPairs(ranges) = task_id_list
        /\ DecodeText(array_range) = task_id_list

\* the list -1,0,2,9,10 was encoded as "-1-0,2,9-10"
C1_Witness ==
    /\ pc = "set_array"
    /\ task_id_list = <<0 - 1, 0, 2, 9, 10>>
    /\ array_range = <<"-", "1", "-", "0", ",", "2", ",", "9", "-", "1", "0">>

\* C2: for every strictly increasing integer list, each emitted pair has
\* start <= end, and each pair starts more than one above the end of the pair
\* before it: ascending, disjoint, and no a, a+1 split across two pairs.
C2_Minimal ==
    (pc = "set_array" /\ IsStrictlyIncreasing(task_id_list)) =>
        /\ \A g \in DOMAIN ranges : ranges[g][1] <= ranges[g][2]
        /\ \A g \in DOMAIN ranges :
              g > 1 => ranges[g][1] > ranges[g - 1][2] + 1

\* 0,1,2,4,5 was collapsed into the two pairs (0,2),(4,5)
C2_Witness ==
    /\ pc = "set_array"
    /\ task_id_list = <<0, 1, 2, 4, 5>>
    /\ ranges = <<<<0, 2>>, <<4, 5>>>>


----------------------------------------------------------------------------
(* C4, C5, C6: the argument merger *)

\* the tokens of the grammar: '--name=value', and the flag of '-x value'
IsLongForm(t) == startswith(t, <<"-", "-">>) /\ "=" \in Elements(t)

IsShortFlag(t) == startswith(t, <<"-">>) /\ ~startswith(t, <<"-", "-">>)

\* name and value of '--name=value': what stands before and after the first '='
FirstEq(t) == CHOOSE k \in DOMAIN t : t[k] = "=" /\ \A m \in 1..(k - 1) : t[m] # "="

LongName(t) == SubSeq(t, 1, FirstEq(t) - 1)

LongValue(t) == SubSeq(t, FirstEq(t) + 1, Len(t))

\* the loop of parse_user_slurm_args is about to read the token at position i
AtOption == pc = "parse" /\ i < Len(arg_list)

\* C4: a pass of the loop on a token '--name=value' whose '--name' is a key of
\* the option map sets that key to 'value', appends nothing to the extra list,
\* and leaves every other key, the order of the keys and the extra list as
\* they were.
C4_LongOverride ==
    [][(AtOption /\ IsLongForm(arg_list[i + 1])
          /\ LongName(arg_list[i + 1]) \in dict_keys(slurm_args))
       => /\ slurm_args' = dict_set(slurm_args, LongName(arg_list[i + 1]),
                                    LongValue(arg_list[i + 1]))
          /\ extra_slurm_args' = extra_slurm_args
          /\ i' = i + 1
          /\ pc' = "parse"]_vars

\* C5: tokens are consumed left to right, and a short flag at an option
\* position takes exactly the next token as its value, whatever it looks like,
\* so that the loop goes on two tokens further; a short flag that is the last
\* token ends the run with a non-zero exit code, the map left without 'extra'.
C5_ShortConsumes ==
    [][(AtOption => i' >= i /\ (pc' = "parse" => i' > i))
       /\ ((AtOption /\ IsShortFlag(arg_list[i + 1])) =>
             IF i + 1 < Len(arg_list)
             THEN /\ pc' = "parse"
                  /\ i' = i + 2
                  /\ IF arg_list[i + 1] \in slurm_flag_keys
                     THEN /\ slurm_args' =
                                 dict_set(slurm_args,
                                          slurm_flag_dict(arg_list[i + 1]),
                                          arg_list[i + 2])
                          /\ extra_slurm_args' = extra_slurm_args
                     ELSE /\ slurm_args' = slurm_args
                          /\ extra_slurm_args' =
                                 Append(extra_slurm_args,
                                        arg_list[i + 1] \o <<" ">> \o arg_list[i + 2])
             ELSE /\ pc' = "exit"
                  /\ exit_code' = 1
                  /\ key_extra \notin dict_keys(slurm_args'))]_vars

\* -c took the flag-looking token -p as the value of --cpus-per-task, and the
\* loop stands at the token after it
C5_Witness ==
    /\ pc = "parse"
    /\ Len(arg_list) = 3
    /\ arg_list[1] = flag_c
    /\ arg_list[2] = tok_p
    /\ i = 2
    /\ dict_get(slurm_args, opt_cpus_per_task) = tok_p

\* token lists made only of '--name=value' tokens and '-x value' pairs
RECURSIVE WellFormed(_)
WellFormed(toks) ==
    IF toks = <<>> THEN TRUE
    ELSE IF IsLongForm(toks[1]) THEN WellFormed(Tail(toks))
    ELSE IF IsShortFlag(toks[1])
         THEN Len(toks) >= 2 /\ WellFormed(Tail(Tail(toks)))
    ELSE FALSE

\* the passthrough entries of a well-formed token list, given the default keys
RECURSIVE ExpectedExtra(_, _)
ExpectedExtra(toks, keys) ==
    IF toks = <<>> THEN <<>>
    ELSE IF IsLongForm(toks[1])
         THEN (IF LongName(toks[1]) \in keys THEN <<>> ELSE <<toks[1]>>)
              \o ExpectedExtra(Tail(toks), keys)
    ELSE (IF toks[1] \in slurm_flag_keys THEN <<>>
          ELSE <<toks[1] \o <<" ">> \o toks[2]>>)
         \o ExpectedExtra(Tail(Tail(toks)), keys)

\* the value a well-formed token list leaves in a default key
RECURSIVE ExpectedValue(_, _, _)
ExpectedValue(toks, key, default) ==
    IF toks = <<>> THEN default
    ELSE IF IsLongForm(toks[1])
         THEN ExpectedValue(Tail(toks), key,
                  IF LongName(toks[1]) = key THEN LongValue(toks[1]) ELSE default)
    ELSE ExpectedValue(Tail(Tail(toks)), key,
             IF toks[1] \in slurm_flag_keys /\ slurm_flag_dict(toks[1]) = key
             THEN toks[2] ELSE default)

\* the option map set_defaults builds
Defaults ==
    <<[k |-> opt_job_name, v |-> taskfile_name],
      [k |-> opt_ntasks, v |-> <<"1">>],
      [k |-> opt_cpus_per_task, v |-> <<"1">>]>>
    \o (IF email # None
        THEN <<[k |-> opt_mail_type, v |-> <<"A", "L", "L">>],
               [k |-> opt_mail_user, v |-> email]>>
        ELSE <<>>)

\* parse_user_slurm_args has ended, by returning or by ending the run
MergeEnded == pc \in {"scan", "exit"}

\* C6: for every well-formed token list the call completes, and the map then
\* has exactly the default keys, each with its default or the last override of
\* the user, and 'extra' with the passthrough tokens and pairs in the order met.
C6_Passthrough ==
    (MergeEnded /\ WellFormed(arg_list)) =>
        /\ pc = "scan"
        /\ dict_keys(slurm_args) = dict_keys(Defaults) \cup {key_extra}
        /\ \A n \in DOMAIN Defaults :
              dict_get(slurm_args, Defaults[n].k)
                  = ExpectedValue(arg_list, Defaults[n].k, Defaults[n].v)
        /\ dict_get(slurm_args, key_extra)
              = ExpectedExtra(arg_list, dict_keys(Defaults))

----------------------------------------------------------------------------
(* C3, C7, C8, C9, C10: the run *)

\* the line without its newline
TrimNewline(line) ==
    IF line # <<>> /\ line[Len(line)] = "\n"
    THEN SubSeq(line, 1, Len(line) - 1) ELSE line

\* the file of the scenario: a command, a blank line, two commands, a comment
ScenarioLines == <<line_cmd, line_blank, line_cmd, line_cmd, line_comment>>

\* no line read so far is a task, however blank lines are understood
NoQualifyingLine ==
    \A k \in DOMAIN lines :
        TrimNewline(lines[k]) = <<>> \/ startswith(lines[k], <<"#">>)

\* C3: a run that has read a task file without any qualifying line ends with
\* the 'No tasks found in <taskfile>' message and exit code 1, with no script
\* line printed and nothing submitted.
C3_EmptyTaskSet ==
    (pc = "exit" /\ eof /\ NoQualifyingLine) =>
        /\ \E k \in DOMAIN stderr :
              stderr[k] = <<NoTasksMessage, taskfile_name>>
        /\ exit_code = 1
        /\ NoScriptLine
        /\ submitted = <<>>

\* C7 as stated: index k is in the task list exactly when line k, with only
\* its newline trimmed, is not empty and does not start with '#'.
C7_NewlineOnly ==
    /\ IsStrictlyIncreasing(task_id_list)
    /\ \A k \in 0..(Len(lines) - 1) :
          k \in Elements(task_id_list)
              <=> (TrimNewline(lines[k + 1]) # <<>>
                   /\ ~startswith(TrimNewline(lines[k + 1]), <<"#">>))

\* C7, amended: index k (counted over all lines read) is in the task list
\* exactly when line k, with all its trailing whitespace trimmed, is not empty
\* and the line does not start with '#'; the list is strictly increasing; and
\* the scenario's file gives [0,2,3] and the range "0,2-3".
C7_Classification ==
    /\ IsStrictlyIncreasing(task_id_list)
    /\ num_tasks = Len(task_id_list)
    /\ \A k \in 0..(Len(lines) - 1) :
          k \in Elements(task_id_list)
              <=> (rstrip(lines[k + 1]) # <<>>
                   /\ ~startswith(lines[k + 1], <<"#">>))
    /\ (lines = ScenarioLines) =>
          /\ task_id_list = <<0, 2, 3>>
          /\ array_range \in {None, <<"0", ",", "2", "-", "3">>}
          /\ pc \in {"set_array", "submit", "print", "exit"} /\ max_array_idx <= MaxArraySize
                => array_range = <<"0", ",", "2", "-", "3">>

\* the scenario's file was scanned to its end and its range was formatted
C7_Witness ==
    /\ lines = ScenarioLines
    /\ eof
    /\ task_id_list = <<0, 2, 3>>
    /\ array_range = <<"0", ",", "2", "-", "3">>

\* the capacity check's fatal end: its message, with the index and the
\* ceiling, and exit code 1
CapacityFatal ==
    /\ pc = "exit"
    /\ exit_code = 1
    /\ task_id_list # <<>>
    /\ \E k \in DOMAIN stdout :
          stdout[k] = <<CapacityMessage, str(task_id_list[Len(task_id_list)]),
                        str(MaxArraySize)>>

\* the script was printed, or the sbatch command was run
Rendered == Printed("\n{script} {taskfile_name}") \/ submitted # <<>>

\* C8: a run that has scanned a non-empty task set ends in the capacity
\* check's fatal end exactly when the largest task index exceeds MaxArraySize;
\* when it does not, the run prints the script or submits; when it does, no
\* script line is printed and nothing is submitted.
C8_CapacityCheck ==
    (pc = "exit" /\ eof /\ task_id_list # <<>>) =>
        /\ CapacityFatal <=> task_id_list[Len(task_id_list)] > MaxArraySize
        /\ task_id_list[Len(task_id_list)] <= MaxArraySize => Rendered
        /\ task_id_list[Len(task_id_list)] > MaxArraySize
              => NoScriptLine /\ submitted = <<>>

\* a file whose last task line has an index above the ceiling was refused
C8_Witness ==
    /\ CapacityFatal
    /\ eof
    /\ max_array_idx = MaxArraySize + 1
    /\ NoScriptLine

\* a token that is no option, or a '--' token without '='
Malformed(t) ==
    \/ ~startswith(t, <<"-">>)
    \/ startswith(t, <<"-", "-">>) /\ "=" \notin Elements(t)

\* C9: when the token at an option position is malformed, the pass of the loop
\* ends the run there with a non-zero exit code, the token neither skipped nor
\* stored; and a run that ended at such a token has printed no script line and
\* submitted nothing.
C9_MalformedFatal ==
    /\ [][(AtOption /\ Malformed(arg_list[i + 1])) =>
             /\ pc' = "exit"
             /\ exit_code' # 0 /\ exit_code' # NoInt
             /\ i' = i
             /\ slurm_args' = slurm_args
             /\ extra_slurm_args' = extra_slurm_args]_vars
    /\ []((pc = "exit" /\ i < Len(arg_list) /\ Malformed(arg_list[i + 1])) =>
             /\ exit_code # 0
             /\ NoScriptLine
             /\ submitted = <<>>)

\* --ntasks=2 was merged, then the run ended at the token --x
C9_Witness ==
    /\ pc = "exit"
    /\ arg_list = <<tok_ntasks_2, tok_long_bare>>
    /\ i = 1
    /\ dict_get(slurm_args, opt_ntasks) = <<"2">>
    /\ key_extra \notin dict_keys(slurm_args)
    /\ exit_code = 1

\* the run ended in one of the fatal startup conditions
FatalStartup ==
    \/ Printed(NoSlurmMessage)
    \/ Printed(CapacityMessage)
    \/ stderr # <<>>

\* C10: a run that has met a fatal startup condition (no slurm, malformed
\* arguments, no task, too large an index) has printed no script line and
\* submitted nothing, and a run that has printed a script line or submitted
\* has met none and meets none afterwards.
C10_FailBeforeOutput ==
    /\ FatalStartup => (pc = "exit" /\ exit_code = 1)
    /\ ~(FatalStartup /\ (~NoScriptLine \/ submitted # <<>>))

\* a run in submit mode ended on a malformed argument, nothing submitted
C10_Witness ==
    /\ pc = "exit"
    /\ submit
    /\ stderr = <<<<"Error parsing arguments">>>>
    /\ stdout = <<>>
    /\ submitted = <<>>

====
